---- MODULE Spec2Model ----
(***************************************************************************)
(* Model of fuckburl-bot: the URL rewrite pipeline of src/replacer.rs      *)
(* (replace_all and its eleven rules, the query filter on Url) and the     *)
(* handler process_update of src/event.rs that calls it.                   *)
(*                                                                         *)
(* A text is a sequence of one-character strings.  Every character of the  *)
(* model's alphabet is ASCII, so an index into the sequence is the byte    *)
(* offset Rust uses.  Offsets are 0-based and ranges are half-open, as in  *)
(* Rust: the range <<st, en>> of s is SubSeq(s, st + 1, en).               *)
(***************************************************************************)
EXTENDS Integers, Sequences, FiniteSets, TLC

(***************************************************************************)
(* Characters and strings                                                  *)
(***************************************************************************)
Digit == {"0", "1", "2", "3", "4", "5", "6", "7", "8", "9"}

Lower == {"a", "b", "c", "d", "e", "f", "g", "h", "i", "j", "k", "l", "m",
          "n", "o", "p", "q", "r", "s", "t", "u", "v", "w", "x", "y", "z"}

Upper == {"A", "B", "C", "D", "E", "F", "G", "H", "I", "J", "K", "L", "M",
          "N", "O", "P", "Q", "R", "S", "T", "U", "V", "W", "X", "Y", "Z"}

\* [a-zA-Z]
Letter == Lower \cup Upper

\* [0-9a-zA-Z]
Alnum == Letter \cup Digit

FAIL == -1

NoMatch == [start |-> FAIL]

\* the character at byte offset i of s
At(s, i) == s[i + 1]

Slice(s, st, en) == SubSeq(s, st + 1, en)

Min(S) == CHOOSE x \in S : \A y \in S : x <= y

RECURSIVE ConcatRange(_, _, _)
\* parts[lo] \o ... \o parts[hi]
ConcatRange(parts, lo, hi) ==
  IF lo > hi THEN <<>>
  ELSE IF lo = hi THEN parts[lo]
  ELSE ConcatRange(parts, lo, (lo + hi) \div 2)
       \o ConcatRange(parts, ((lo + hi) \div 2) + 1, hi)

Concat(parts) == ConcatRange(parts, 1, Len(parts))

\* offset of the first character of the set in s at or after offset i,
\* Len(s) when there is none
FirstOf(s, set, i) ==
  Min({j \in i..Len(s) : j = Len(s) \/ At(s, j) \in set})

IndexOf(s, c, i) == FirstOf(s, {c}, i)

(***************************************************************************)
(* Regex primitives (fancy_regex, backtracking, leftmost match, greedy)    *)
(***************************************************************************)
\* a literal whose dots are unescaped in the pattern, at offset i: the
\* offset after it, or FAIL; "." matches any character but a newline
LitDot(s, i, lit) ==
  IF i = FAIL \/ i + Len(lit) > Len(s) THEN FAIL
  ELSE IF \A k \in 1..Len(lit) :
            IF lit[k] = "." THEN s[i + k] # "\n" ELSE s[i + k] = lit[k]
  THEN i + Len(lit)
  ELSE FAIL

\* a literal with nothing to escape, or all escaped, at offset i
LitAt(s, i, lit) ==
  IF i = FAIL \/ i + Len(lit) > Len(s) THEN FAIL
  ELSE IF \A k \in 1..Len(lit) : s[i + k] = lit[k] THEN i + Len(lit)
  ELSE FAIL

\* (lit)? : greedy, taken when present
Opt(i, r) == IF i = FAIL THEN FAIL ELSE IF r # FAIL THEN r ELSE i

OptLit(s, i, lit) == Opt(i, LitAt(s, i, lit))

\* [class]* from offset i: the offset after the longest run
Run(s, i, class) ==
  IF i = FAIL THEN FAIL
  ELSE Min({j \in i..Len(s) : j = Len(s) \/ At(s, j) \notin class})

\* [class]+
NonEmpty(i, r) == IF r > i THEN r ELSE FAIL

Run1(s, i, class) == NonEmpty(i, Run(s, i, class))

\* [^class]*
RunNot(s, i, class) == FirstOf(s, class, i)

RECURSIVE TailPairs(_, _)

SkipAmp(s, i) == IF i < Len(s) /\ At(s, i) = "&" THEN i + 1 ELSE i

\* after the run at r: "=" and the next run, then the next iteration from
\* there; or the star stops at i
PairFrom(s, i, r) ==
  IF r < Len(s) /\ At(s, r) = "="
  THEN TailPairs(s, RunNot(s, r + 1, {"=", "&"}))
  ELSE i

\* (?:&?[^=&]*=[^=&]*)* from offset i.  One iteration takes an optional "&",
\* the longest run without "=" and "&", then needs "="; when "=" is not
\* there no shorter choice finds one, and the star stops before the
\* iteration.
TailPairs(s, i) == PairFrom(s, i, RunNot(s, SkipAmp(s, i), {"=", "&"}))

\* \??(?:&?[^=&]*=[^=&]*)* : the query tail every pattern ends with
QueryTail(s, i) ==
  IF i = FAIL THEN FAIL
  ELSE TailPairs(s, IF i < Len(s) /\ At(s, i) = "?" THEN i + 1 ELSE i)

S_https == <<"h", "t", "t", "p", "s", ":", "/", "/">>

S_http == <<"h", "t", "t", "p", ":", "/", "/">>

Or(a, b) == IF a # FAIL THEN a ELSE b

\* https?:// at offset i
SchemeAt(s, i) == Or(LitAt(s, i, S_https), LitAt(s, i, S_http))

\* (?<![a-zA-Z]{1}) and ^ at offset i: no letter right before i
NotAfterLetter(s, i) == i = 0 \/ At(s, i - 1) \notin Letter

(***************************************************************************)
(* The pattern catalog (lazy_static!, replacer.rs 11-50).  Each pattern is *)
(* prefix, body, query tail.  A body returns the offset where the match    *)
(* ends and the offsets p1..p3 that delimit its capture groups; end = FAIL *)
(* when it does not match.  In each body the greedy choice is the only one *)
(* that can succeed (the alternatives start with different characters, the *)
(* classes exclude the character that follows them), except (t/)? of the   *)
(* tiktok pattern, whose second choice is modelled.                        *)
(***************************************************************************)
S_b23 == <<"b", "2", "3", ".", "t", "v", "/">>

S_www == <<"w", "w", "w", ".">>

S_bvideo ==
  <<"b", "i", "l", "i", "b", "i", "l", "i", ".", "c", "o", "m", "/", "v",
    "i", "d", "e", "o", "/">>

S_barticle ==
  <<"b", "i", "l", "i", "b", "i", "l", "i", ".", "c", "o", "m", "/", "r",
    "e", "a", "d", "/", "m", "o", "b", "i", "l", "e", "/">>

S_amazon == <<"a", "m", "a", "z", "o", "n", ".">>

S_com == <<"c", "o", "m">>

S_co == <<"c", "o">>

S_dp == <<"d", "p", "/">>

S_slash_s == <<"/", "s">>

S_qk == <<"?", "k", "=">>

S_www3 == <<"w", "w", "w">>

S_cdot == <<"c", ".">>

S_vx == <<"v", "x">>

S_twitter == <<"t", "w", "i", "t", "t", "e", "r", ".", "c", "o", "m">>

S_status == <<"/", "s", "t", "a", "t", "u", "s", "/">>

S_weixin ==
  <<"m", "p", ".", "w", "e", "i", "x", "i", "n", ".", "q", "q", ".", "c",
    "o", "m", "/", "s">>

S_item == <<"i", "t", "e", "m", ".">>

S_mdot == <<"m", ".">>

S_jd ==
  <<"j", "d", ".", "c", "o", "m", "/", "p", "r", "o", "d", "u", "c", "t",
    "/">>

S_html == <<".", "h", "t", "m", "l">>

S_xhs == <<"x", "h", "s", "l", "i", "n", "k", ".", "c", "o", "m", "/">>

S_tco == <<"t", ".", "c", "o", "/">>

S_vm == <<"v", "m">>

S_vt == <<"v", "t">>

S_tiktok == <<".", "t", "i", "k", "t", "o", "k", ".", "c", "o", "m", "/">>

S_t == <<"t", "/">>

B(e, a, b, c) == [end |-> e, p1 |-> a, p2 |-> b, p3 |-> c]

\* the query tail after offset c, which also closes the last group
B3(s, a, b, c) == B(QueryTail(s, c), a, b, c)

B2(s, a, c) == B3(s, a, c, c)

BEnd(s, c) == B3(s, c, c, c)

\* b23.tv/[0-9a-zA-Z]+/? : the dot is unescaped
BShortBody(s, j) ==
  BEnd(s, OptLit(s, Run1(s, LitDot(s, j, S_b23), Alnum), <<"/">>))

\* (www\.)?bilibili.com/video/[0-9a-zA-Z]+/?
BVideoBody(s, j) ==
  BEnd(s, OptLit(s, Run1(s, LitDot(s, OptLit(s, j, S_www), S_bvideo), Alnum),
                 <<"/">>))

\* (?P<cvid>[0-9]+) from offset b: cvid is p1..p2
CvId(s, b) == B2(s, b, Run1(s, b, Digit))

\* (www\.)?bilibili.com/read/mobile/(?P<cvid>[0-9]+)
BArticleBody(s, j) == CvId(s, LitDot(s, OptLit(s, j, S_www), S_barticle))

\* co(\.[a-zA-Z]+)? , co ending at offset co
AmazonCo(s, co) == Or(Run1(s, LitAt(s, co, <<".">>), Letter), co)

\* (com|co(\.[a-zA-Z]+)?) from offset b: com is kept when the "/" that
\* follows the group in both patterns is there, else the engine tries co
AmazonTld(s, b, com) ==
  IF com # FAIL /\ LitAt(s, com, <<"/">>) # FAIL THEN com
  ELSE AmazonCo(s, LitAt(s, b, S_co))

AmazonDomain(s, b) == AmazonTld(s, b, LitAt(s, b, S_com))

\* (www\.)?amazon\.(com|co(\.[a-zA-Z]+)?) : the offset after the domain name
AmazonHost(s, j) == AmazonDomain(s, LitAt(s, OptLit(s, j, S_www), S_amazon))

\* (?P<path>dp/[0-9a-zA-Z]+/?) from offset c: path is p2..p3
AmazonPath(s, a, c) ==
  B3(s, a, c, OptLit(s, Run1(s, LitAt(s, c, S_dp), Alnum), <<"/">>))

\* [a-zA-Z0-9%-]+/ from offset a, where the domain group ends
AmazonItem(s, a) ==
  AmazonPath(s, a, LitAt(s, Run1(s, a, Alnum \cup {"%", "-"}), <<"/">>))

\* (?P<domain>...amazon.../)[a-zA-Z0-9%-]+/(?P<path>dp/[0-9a-zA-Z]+/?) :
\* domain ends at p1, path is p2..p3
AmazonBody(s, j) == AmazonItem(s, LitAt(s, AmazonHost(s, j), <<"/">>))

\* (?:&?[^=&]*=[^=&]*)* with no \?? before it
Pairs(s, c) == IF c = FAIL THEN FAIL ELSE TailPairs(s, c)

AmazonKeyword(s, a, c) == B(Pairs(s, c), a, c, c)

\* (?P<keyword>\?k=[a-zA-Z0-9%+-]+) from offset a: keyword is p1..p2
AmazonSearchFrom(s, a) ==
  AmazonKeyword(s, a, Run1(s, LitAt(s, a, S_qk), Alnum \cup {"%", "+", "-"}))

\* (?P<domain>...amazon.../s)(?P<keyword>\?k=[a-zA-Z0-9%+-]+)(?:...)* :
\* domain ends at p1
AmazonSearchBody(s, j) ==
  AmazonSearchFrom(s, LitAt(s, AmazonHost(s, j), S_slash_s))

\* (?P<path>/[a-zA-Z0-9_]+/status/[0-9]+) from offset c: path is p1..p2
TwitterPath(s, c) ==
  B2(s, c, Run1(s, LitAt(s, Run1(s, LitAt(s, c, <<"/">>), Alnum \cup {"_"}),
                         S_status), Digit))

\* (www|c\.)?(vx)?twitter\.com(?P<path>/[a-zA-Z0-9_]+/status/[0-9]+)
TwitterBody(s, j) ==
  TwitterPath(s, LitAt(s, OptLit(s, Or(LitAt(s, j, S_www3),
                                       OptLit(s, j, S_cdot)), S_vx),
                       S_twitter))

\* mp\.weixin\.qq\.com/s
WeixinBody(s, j) == BEnd(s, LitAt(s, j, S_weixin))

\* (?P<url>...item\.(m\.)?jd\.com/product/[0-9]+\.html) : url ends at p1
JdBody(s, j) ==
  BEnd(s, LitAt(s, Run1(s, LitAt(s, OptLit(s, LitAt(s, j, S_item), S_mdot),
                                 S_jd), Digit), S_html))

\* xhslink.com/[0-9a-zA-Z]+/? : the dot is unescaped
XiaohongshuBody(s, j) ==
  BEnd(s, OptLit(s, Run1(s, LitDot(s, j, S_xhs), Alnum), <<"/">>))

\* t\.co/[0-9a-zA-Z]+/?
TwitterShortBody(s, j) ==
  BEnd(s, OptLit(s, Run1(s, LitAt(s, j, S_tco), Alnum), <<"/">>))

\* (t/)?[0-9a-zA-Z]+/? from offset b: when nothing of [0-9a-zA-Z]+ follows
\* "t/", the engine gives (t/)? back and "t" is the id
TiktokId(s, b) ==
  BEnd(s, OptLit(s, Or(Run1(s, OptLit(s, b, S_t), Alnum),
                       Run1(s, b, Alnum)), <<"/">>))

\* (vm|vt|www)\.tiktok\.com/(t/)?[0-9a-zA-Z]+/?
TiktokShareBody(s, j) ==
  TiktokId(s, LitAt(s, Or(LitAt(s, j, S_vm),
                          Or(LitAt(s, j, S_vt), LitAt(s, j, S_www3))),
                    S_tiktok))

Rules == <<"bshort", "xiaohongshu", "twitter_short", "tiktok_share",
           "btrack", "barticle", "twitter", "amazon", "amazon_search",
           "weixin", "jd">>

Body(rule, s, j) ==
  CASE rule = "bshort" -> BShortBody(s, j)
    [] rule = "xiaohongshu" -> XiaohongshuBody(s, j)
    [] rule = "twitter_short" -> TwitterShortBody(s, j)
    [] rule = "tiktok_share" -> TiktokShareBody(s, j)
    [] rule = "btrack" -> BVideoBody(s, j)
    [] rule = "barticle" -> BArticleBody(s, j)
    [] rule = "twitter" -> TwitterBody(s, j)
    [] rule = "amazon" -> AmazonBody(s, j)
    [] rule = "amazon_search" -> AmazonSearchBody(s, j)
    [] rule = "weixin" -> WeixinBody(s, j)
    [] rule = "jd" -> JdBody(s, j)

Found(i, b) ==
  [start |-> i, end |-> b.end, p1 |-> b.p1, p2 |-> b.p2, p3 |-> b.p3]

\* the prefix group of BSHORT_REGEX is followed by "?":
\* (https?://|(?<![a-zA-Z]{1})|^)?  (replacer.rs 13); no other pattern's is
PrefixOptional(rule) == rule = "bshort"

\* The prefix (https?://|(?<![a-zA-Z]{1})|^) tries its alternatives in
\* order, each kept only when the rest of the pattern matches after it:
\* with is the body after the scheme, plain the body at offset i, clear
\* whether no letter is right before i.  Where the group is optional the
\* engine at last skips it.
Alternatives(rule, i, with, plain, clear) ==
  IF with.end # FAIL THEN Found(i, with)
  ELSE IF clear /\ plain.end # FAIL THEN Found(i, plain)
  ELSE IF PrefixOptional(rule) /\ plain.end # FAIL THEN Found(i, plain)
  ELSE NoMatch

\* The match of a pattern that starts at offset i, or NoMatch.
MatchAt(rule, s, i) ==
  Alternatives(rule, i, Body(rule, s, SchemeAt(s, i)), Body(rule, s, i),
               NotAfterLetter(s, i))

\* the offsets of s where a match of the pattern starts
Starts(rule, s) ==
  {j \in 0..(Len(s) - 1) : MatchAt(rule, s, j) # NoMatch}

\* the leftmost match among the offsets of from
Leftmost(rule, s, from) ==
  IF from = {} THEN NoMatch ELSE MatchAt(rule, s, Min(from))

RECURSIVE FindFrom(_, _, _, _)

\* the match m, then the matches after its end
Matches(rule, s, starts, m) ==
  IF m = NoMatch THEN <<>> ELSE <<m>> \o FindFrom(rule, s, starts, m.end)

\* the matches at or after offset i: the leftmost, then those after its end
FindFrom(rule, s, starts, i) ==
  Matches(rule, s, starts, Leftmost(rule, s, {j \in starts : j >= i}))

\* Regex::find_iter: the non-overlapping matches of the pattern in s, left
\* to right, each search starting where the last match ended.  (An Err item,
\* fancy_regex's backtrack limit, needs a text far longer than the model's.)
FindIter(rule, s) == FindFrom(rule, s, Starts(rule, s), 0)

MatchText(s, m) == Slice(s, m.start, m.end)

(***************************************************************************)
(* Url (the url crate, used through reqwest::Url)                          *)
(***************************************************************************)
\* the printable ASCII characters, 0x20..0x7E, in code order (the entry of
\* the grave accent, which a string of this module cannot hold, is named by
\* its code; no text of the model holds one)
Ascii ==
  <<" ", "!", "\"", "#", "$", "%", "&", "'", "(", ")", "*", "+", ",", "-",
    ".", "/", "0", "1", "2", "3", "4", "5", "6", "7", "8", "9", ":", ";",
    "<", "=", ">", "?", "@", "A", "B", "C", "D", "E", "F", "G", "H", "I",
    "J", "K", "L", "M", "N", "O", "P", "Q", "R", "S", "T", "U", "V", "W",
    "X", "Y", "Z", "[", "\\", "]", "^", "_", "0x60", "a", "b", "c", "d", "e",
    "f", "g", "h", "i", "j", "k", "l", "m", "n", "o", "p", "q", "r", "s",
    "t", "u", "v", "w", "x", "y", "z", "{", "|", "}", "~">>

HexDigits ==
  <<"0", "1", "2", "3", "4", "5", "6", "7", "8", "9", "A", "B", "C", "D",
    "E", "F">>

HexLower == <<"a", "b", "c", "d", "e", "f">>

IsHex(c) ==
  \/ \E k \in 1..16 : HexDigits[k] = c
  \/ \E k \in 1..6 : HexLower[k] = c

HexVal(c) ==
  IF \E k \in 1..16 : HexDigits[k] = c
  THEN (CHOOSE k \in 1..16 : HexDigits[k] = c) - 1
  ELSE (CHOOSE k \in 1..6 : HexLower[k] = c) + 9

\* the byte value of an ASCII character of the table
Code(c) == (CHOOSE k \in 1..Len(Ascii) : Ascii[k] = c) + 31

\* a decoded byte that is no printable ASCII character: a control byte, or
\* a byte of a UTF-8 sequence (from_utf8_lossy then yields the character or
\* U+FFFD).  The model's texts hold no such escape.
OtherByte == "\\xNN"

Chr(n) == IF n >= 32 /\ n <= 126 THEN Ascii[n - 31] ELSE OtherByte

\* %XX, upper-case hex
PercentEncode(c) ==
  <<"%", HexDigits[(Code(c) \div 16) + 1], HexDigits[(Code(c) % 16) + 1]>>

None == <<"None">>

RECURSIVE TrimStart(_)
TrimStart(s) ==
  IF s # <<>> /\ Head(s) = " " THEN TrimStart(Tail(s)) ELSE s

RECURSIVE TrimEnd(_)
TrimEnd(s) ==
  IF s # <<>> /\ s[Len(s)] = " " THEN TrimEnd(SubSeq(s, 1, Len(s) - 1))
  ELSE s

\* utf8_percent_encode of s with an encode set
EncodeSet(s, set) ==
  Concat([k \in 1..Len(s) |->
            IF s[k] \in set THEN PercentEncode(s[k]) ELSE <<s[k]>>])

\* the url crate's encode sets, restricted to printable ASCII
PathSet == {" ", "\"", "#", "<", ">", "?", "0x60", "{", "}"}

SpecialQuerySet == {" ", "\"", "#", "<", ">", "'"}

FragmentSet == {" ", "\"", "<", ">", "0x60"}

HostChars == Lower \cup Digit \cup {".", "-"}

UrlErr == [ok |-> FALSE]

\* the Url of the trimmed input s: its host ends at h1, its path at p1, its
\* query at q1.  base is scheme, host and path as serialized, query and
\* fragment are None when absent.
UrlOf(s, h1, p1, q1) ==
  [ok |-> TRUE,
   base |-> Slice(s, 0, h1)
            \o (IF p1 = h1 THEN <<"/">>
                ELSE EncodeSet(Slice(s, h1, p1), PathSet)),
   query |-> IF p1 < Len(s) /\ At(s, p1) = "?"
             THEN EncodeSet(Slice(s, p1 + 1, q1), SpecialQuerySet)
             ELSE None,
   fragment |-> IF q1 < Len(s)
                THEN EncodeSet(Slice(s, q1 + 1, Len(s)), FragmentSet)
                ELSE None]

HostOk(host) == host # <<>> /\ \A k \in 1..Len(host) : host[k] \in HostChars

ParsePath(s, h1, p1) == UrlOf(s, h1, p1, FirstOf(s, {"#"}, p1))

ParseHost(s, h0, h1) ==
  IF HostOk(Slice(s, h0, h1))
  THEN ParsePath(s, h1, FirstOf(s, {"?", "#"}, h1))
  ELSE UrlErr

\* without a scheme the parse fails (RelativeUrlWithoutBase)
ParseScheme(s, h0) ==
  IF h0 = FAIL THEN UrlErr
  ELSE ParseHost(s, h0, FirstOf(s, {"/", "?", "#"}, h0))

\* Url::parse / Url::from_str of an http(s) URL.  The input is trimmed of
\* leading and trailing spaces.  Hosts with a port, user info or upper-case
\* letters, other schemes and dot segments of the path do not occur in the
\* model's texts.
ParseTrimmed(s) == ParseScheme(s, SchemeAt(s, 0))

ParseUrl(str) == ParseTrimmed(TrimEnd(TrimStart(str)))

\* Url::to_string
UrlToString(u) ==
  u.base
  \o (IF u.query = None THEN <<>> ELSE <<"?">> \o u.query)
  \o (IF u.fragment = None THEN <<>> ELSE <<"#">> \o u.fragment)

\* Url::set_query(None)
SetQueryNone(u) == [u EXCEPT !.query = None]

RECURSIVE Split(_, _)
\* s.split(c)
Split(s, c) ==
  LET k == IndexOf(s, c, 0)
  IN  IF k = Len(s) THEN <<s>>
      ELSE <<Slice(s, 0, k)>> \o Split(Slice(s, k + 1, Len(s)), c)

\* s holds %XX with two hex digits at index k (a hex digit is no "%", so
\* no escape starts inside another)
EscapeAt(s, k) ==
  k >= 1 /\ k + 2 <= Len(s) /\ s[k] = "%" /\ IsHex(s[k + 1])
  /\ IsHex(s[k + 2])

\* a variant that leaves %XX as it is
FormDecodeNoEscape(s) ==
  Concat([k \in 1..Len(s) |-> IF s[k] = "+" THEN <<" ">> ELSE <<s[k]>>])

\* form_urlencoded decode: "+" is a space, %XX with two hex digits is the
\* byte, any other "%" stays
FormDecode(s) ==
  Concat([k \in 1..Len(s) |->
            IF EscapeAt(s, k)
            THEN <<Chr(16 * HexVal(s[k + 1]) + HexVal(s[k + 2]))>>
            ELSE IF EscapeAt(s, k - 1) \/ EscapeAt(s, k - 2) THEN <<>>
            ELSE IF s[k] = "+" THEN <<" ">>
            ELSE <<s[k]>>])

\* form_urlencoded::byte_serialize: [0-9A-Za-z*-._] stay, a space is "+",
\* every other byte is %XX
FormEncode(s) ==
  Concat([k \in 1..Len(s) |->
            IF s[k] \in Alnum \cup {"*", "-", ".", "_"} THEN <<s[k]>>
            ELSE IF s[k] = " " THEN <<"+">>
            ELSE PercentEncode(s[k])])

\* one name=value piece of a query, decoded: <<name, value>>
DecodePair(piece) ==
  LET k == IndexOf(piece, "=", 0)
  IN  <<FormDecode(Slice(piece, 0, k)),
        IF k = Len(piece) THEN <<>>
        ELSE FormDecode(Slice(piece, k + 1, Len(piece)))>>

RECURSIVE DecodePieces(_)
DecodePieces(pieces) ==
  IF pieces = <<>> THEN <<>>
  ELSE (IF Head(pieces) = <<>> THEN <<>> ELSE <<DecodePair(Head(pieces))>>)
       \o DecodePieces(Tail(pieces))

\* Url::query_pairs: form_urlencoded::parse of the query; the pieces
\* between "&" that are empty are skipped
QueryPairs(u) ==
  IF u.query = None THEN <<>> ELSE DecodePieces(Split(u.query, "&"))

RECURSIVE SerializePairs(_)
\* form_urlencoded::Serializer: append_pair for each pair, then finish
SerializePairs(pairs) ==
  IF pairs = <<>> THEN <<>>
  ELSE FormEncode(pairs[1][1]) \o <<"=">> \o FormEncode(pairs[1][2])
       \o (IF Len(pairs) = 1 THEN <<>>
           ELSE <<"&">> \o SerializePairs(Tail(pairs)))

\* a variant that keeps the pairs the predicate rejects
KeptPairsInverted(u, keys) ==
  LET Keep(p) == p[1] \notin keys IN SelectSeq(QueryPairs(u), Keep)

\* the pairs remove_pairs_if_key appends to the serializer: those the
\* predicate of keep_pairs_only_in does not reject
KeptPairs(u, keys) ==
  LET Keep(p) == p[1] \in keys IN SelectSeq(QueryPairs(u), Keep)

\* a variant without the set_query(None) of an empty query
SetPairsKeepEmpty(u, q) == [u EXCEPT !.query = q]

\* self.set_query(match &*ser.finish() { "" => None, query => Some(query) }):
\* q is what the serializer holds (its characters need no further encoding)
SetPairs(u, q) == [u EXCEPT !.query = IF q = <<>> THEN None ELSE q]

\* RemovePairsIf::keep_pairs_only_in on Url
KeepPairsOnlyIn(u, keys) == SetPairs(u, SerializePairs(KeptPairs(u, keys)))

BiliKeys == {<<"p">>, <<"t">>}

WeixinKeys ==
  {<<"_", "_", "b", "i", "z">>, <<"m", "i", "d">>, <<"i", "d", "x">>,
   <<"s", "n">>}

trim_bili_link(u) == KeepPairsOnlyIn(u, BiliKeys)

(***************************************************************************)
(* The rules of replacer.rs                                                *)
(***************************************************************************)
PANIC == <<"panic">>

\* String::replace_range(st..en, with): panics when the range does not lie
\* within the string (every character is one byte, so every offset is a
\* character boundary)
replace_range(s, st, en, with) ==
  IF s = PANIC \/ st > en \/ en > Len(s) THEN PANIC
  ELSE Slice(s, 0, st) \o with \o Slice(s, en, Len(s))

\* the fixed text of the templates of replace_barticle and replace_twitter
T_barticle ==
  <<"h", "t", "t", "p", "s", ":", "/", "/", "w", "w", "w", ".", "b", "i",
    "l", "i", "b", "i", "l", "i", ".", "c", "o", "m", "/", "r", "e", "a",
    "d", "/", "c", "v">>

T_twitter ==
  <<"h", "t", "t", "p", "s", ":", "/", "/", "c", ".", "v", "x", "t", "w",
    "i", "t", "t", "e", "r", ".", "c", "o", "m">>

\* the $name expansions of the replacement templates
Expand(rule, s, m) ==
  CASE rule = "barticle" -> T_barticle \o Slice(s, m.p1, m.p2)
    [] rule = "twitter" -> T_twitter \o Slice(s, m.p1, m.p2)
    [] rule = "amazon" -> Slice(s, m.start, m.p1) \o Slice(s, m.p2, m.p3)
    [] rule = "amazon_search" -> Slice(s, m.start, m.p2)
    [] rule = "jd" -> Slice(s, m.start, m.p1)

RECURSIVE Splice(_, _, _, _)
\* the text of s from offset `from` on, with the matches ms replaced
Splice(rule, s, ms, from) ==
  IF ms = <<>> THEN Slice(s, from, Len(s))
  ELSE Slice(s, from, ms[1].start) \o Expand(rule, s, ms[1])
       \o Splice(rule, s, Tail(ms), ms[1].end)

\* Regex::replace_all: every match replaced, the text between copied
RegexReplaceAll(rule, s) == Splice(rule, s, FindIter(rule, s), 0)

FirstOnly(ms) == IF ms = <<>> THEN <<>> ELSE <<ms[1]>>

\* Regex::replace: the first match only
RegexReplace(rule, s) == Splice(rule, s, FirstOnly(FindIter(rule, s)), 0)

replace_twitter(url) == RegexReplace("twitter", url)

replace_jd(url) == RegexReplaceAll("jd", url)

replace_amazon(url) == RegexReplaceAll("amazon", url)

replace_amazon_search(url) == RegexReplaceAll("amazon_search", url)

replace_barticle(str) == RegexReplaceAll("barticle", str)

\* one turn of the loops of replace_weixin and replace_btrack for the match
\* m, url being Url::from_str of its text: a match that does not parse is
\* skipped, one that does is filtered and written over the range the match
\* had in the scanned text
FilterOne(m, url, keys, new_str) ==
  IF ~url.ok THEN new_str
  ELSE replace_range(new_str, m.start, m.end,
                     UrlToString(KeepPairsOnlyIn(url, keys)))

RECURSIVE FilterLoop(_, _, _, _)
\* the loop of replace_weixin, and the two loops of replace_btrack, which
\* apply the same replace_range calls in the same order
FilterLoop(text, ms, keys, new_str) ==
  IF ms = <<>> \/ new_str = PANIC THEN new_str
  ELSE FilterLoop(text, Tail(ms), keys,
                  FilterOne(ms[1], ParseUrl(MatchText(text, ms[1])), keys,
                            new_str))

\* a variant whose new_str does not start as a copy of the text
replace_weixin_empty(text) ==
  FilterLoop(text, FindIter("weixin", text), WeixinKeys, <<>>)

replace_weixin(text) ==
  FilterLoop(text, FindIter("weixin", text), WeixinKeys, text)

replace_btrack(text) ==
  FilterLoop(text, FindIter("btrack", text), BiliKeys, text)

\* a panic unwinds the task: no rule runs after it
AfterWeixin(f) == IF f = PANIC THEN PANIC ELSE replace_jd(f)

AfterBtrack(a) ==
  IF a = PANIC THEN PANIC
  ELSE AfterWeixin(replace_weixin(replace_amazon_search(replace_amazon(
         replace_twitter(replace_barticle(a))))))

\* replace_all from replace_btrack on: the rules that do no network request
SyncRules(s) == AfterBtrack(replace_btrack(s))

\* the rules that resolve, in the order replace_all calls them
Resolving == <<"bshort", "xiaohongshu", "twitter_short", "tiktok_share">>

\* what a resolving rule does to the final URL before it writes it
Rewritten(rule, url) ==
  CASE rule = "bshort" -> trim_bili_link(url)
    [] rule = "xiaohongshu" -> SetQueryNone(url)
    [] rule = "twitter_short" -> url
    [] rule = "tiktok_share" -> SetQueryNone(url)

(***************************************************************************)
(* Inputs                                                                  *)
(***************************************************************************)
\* the most links a message text holds
MaxLinks == 2

\* the pieces a message text is made of: links the rules match, a bare
\* domain, a word no rule matches
L_bshort ==
  <<"h", "t", "t", "p", "s", ":", "/", "/", "b", "2", "3", ".", "t", "v",
    "/", "a", "b", "c">>

L_bshort_bare == <<"b", "2", "3", ".", "t", "v", "/", "a", "b", "c">>

L_tshort ==
  <<"h", "t", "t", "p", "s", ":", "/", "/", "t", ".", "c", "o", "/", "x",
    "y">>

L_bvideo ==
  <<"h", "t", "t", "p", "s", ":", "/", "/", "w", "w", "w", ".", "b", "i",
    "l", "i", "b", "i", "l", "i", ".", "c", "o", "m", "/", "v", "i", "d",
    "e", "o", "/", "B", "V", "1", "/", "?", "s", "p", "m", "=", "1">>

L_twitter ==
  <<"h", "t", "t", "p", "s", ":", "/", "/", "t", "w", "i", "t", "t", "e",
    "r", ".", "c", "o", "m", "/", "u", "/", "s", "t", "a", "t", "u", "s",
    "/", "1", "?", "s", "=", "2", "0">>

L_twitter_plain ==
  <<"h", "t", "t", "p", "s", ":", "/", "/", "t", "w", "i", "t", "t", "e",
    "r", ".", "c", "o", "m", "/", "u", "/", "s", "t", "a", "t", "u", "s",
    "/", "2">>

L_weixin ==
  <<"h", "t", "t", "p", "s", ":", "/", "/", "m", "p", ".", "w", "e", "i",
    "x", "i", "n", ".", "q", "q", ".", "c", "o", "m", "/", "s", "?", "_",
    "_", "b", "i", "z", "=", "M", "=", "=", "&", "c", "h", "k", "s", "m",
    "=", "e", "#", "r", "d">>

L_plain == <<"h", "e", "l", "l", "o">>

Links == {L_bshort, L_bshort_bare, L_tshort, L_bvideo, L_twitter,
          L_twitter_plain, L_weixin, L_plain}

\* what a text starts with before its first link: nothing, a letter
Prefixes == {<<>>, <<"a">>}

\* what stands between two links: a space, "& "
Seps == {<<" ">>, <<"&", " ">>}

RECURSIVE TextsOf(_)
TextsOf(n) ==
  IF n = 1 THEN {p \o l : p \in Prefixes, l \in Links}
  ELSE {t \o sep \o l : t \in TextsOf(n - 1), sep \in Seps, l \in Links}

Texts == {<<>>} \cup UNION {TextsOf(n) : n \in 1..MaxLinks}

\* the final URLs a redirect chain can end at
D_bvideo ==
  <<"h", "t", "t", "p", "s", ":", "/", "/", "w", "w", "w", ".", "b", "i",
    "l", "i", "b", "i", "l", "i", ".", "c", "o", "m", "/", "v", "i", "d",
    "e", "o", "/", "B", "V", "9", "/", "?", "t", "=", "1", "0", "0", "&",
    "s", "p", "m", "=", "2">>

D_twitter ==
  <<"h", "t", "t", "p", "s", ":", "/", "/", "t", "w", "i", "t", "t", "e",
    "r", ".", "c", "o", "m", "/", "u", "/", "s", "t", "a", "t", "u", "s",
    "/", "7", "?", "s", "=", "2", "0">>

Dests == {D_bvideo, D_twitter}

\* an Update as process_update reads it: its content kind, whether
\* msg.date < START_TIME, whether the chat is in enabled_chats, msg.text
Msg(t) == [kind |-> "Message", old |-> FALSE, enabled |-> TRUE, text |-> t]

Updates ==
  {Msg(t) : t \in Texts}
  \cup {[Msg(L_bvideo) EXCEPT !.kind = "EditedMessage"],
        [Msg(L_bvideo) EXCEPT !.old = TRUE],
        [Msg(L_bvideo) EXCEPT !.enabled = FALSE],
        Msg(None)}

(***************************************************************************)
(* State                                                                   *)
(***************************************************************************)
VARIABLES
  update,    \* the Update process_update was spawned with
  pc,        \* where the task is: "start", "resolve" (awaiting
             \* get_redirect_url), "send" (awaiting send_message), "delete"
             \* (awaiting delete_message), "done" (Ok), "failed" (Err),
             \* "panicked"
  error,     \* the context of the Err the task ended with, None otherwise
  rule,      \* index in Resolving of the rule that is running
  str,       \* the text that rule scans (its parameter str)
  matches,   \* its matches: find_iter(str).collect()
  idx,       \* the match the loop is at
  new_str,   \* the rule's new_str
  replaced,  \* what replace_all returned, None until it returns Ok
  requests,  \* the HTTP requests issued: [url, final], final None while in
             \* flight, "Err" once failed, else the final URL
  calls,     \* the Telegram calls issued: [op, rewrite], rewrite being the
             \* text the body of a sent message is built from
  furl,      \* query filter alone: the URL text given
  fkeys,     \* the allowlist
  fstage,    \* "input", "parsed", "once", "twice"
  fu0,       \* the parsed Url
  fu1,       \* the Url after keep_pairs_only_in
  fu2,       \* the Url after a second keep_pairs_only_in
  update_seq,  \* polling loop: the offset of the next get_updates (AtomicU32)
  poll_pc,     \* where the loop is: "fetch" (awaiting get_updates), "yield"
               \* (handing the batch over), "panicked", "idle"
  polls,       \* the answers of get_updates so far, "Ok" or "Err"
  updates,     \* the update ids of the batch not yet yielded
  returned,    \* the update ids get_updates has returned, in order
  handed       \* the update ids process_update was spawned with, in order

task == <<update, pc, error, rule, str, matches, idx, new_str, replaced,
          requests, calls>>

filter == <<furl, fkeys, fstage, fu0, fu1, fu2>>

poll == <<update_seq, poll_pc, polls, updates, returned, handed>>

vars == <<update, pc, error, rule, str, matches, idx, new_str, replaced,
          requests, calls, furl, fkeys, fstage, fu0, fu1, fu2,
          update_seq, poll_pc, polls, updates, returned, handed>>

(***************************************************************************)
(* process_update (event.rs) and replace_all (replacer.rs 52-74).  An      *)
(* action is the code the task runs from one await that waits for the      *)
(* network to the next.                                                    *)
(***************************************************************************)
Pos(p, r, s, ms, k, ns, out) ==
  [pc |-> p, rule |-> r, str |-> s, matches |-> ms, idx |-> k,
   new_str |-> ns, replaced |-> out]

RECURSIVE Continue(_, _, _, _, _)

\* a variant that would skip the match whose resolution failed and go on
ResolveSkipped(r, s, ms, k, ns) == Continue(r, s, ms, k + 1, ns)

\* get_redirect_url(x.as_str()).await? with an Err: the rule returns it, and
\* so does replace_all through its own "?"
ResolveFailed(r, s, ms, k, ns) == Pos("failed", r, s, ms, k, ns, None)

\* the rules that do no network request have run on ns and gave out
Finished(r, s, ms, k, ns, out) ==
  IF out = PANIC THEN Pos("panicked", r, s, ms, k, ns, None)
  ELSE Pos("replaced", r, s, ms, k, ns, out)

\* replace_all from match k of resolving rule r on, up to its next request
\* or its end.  A match whose text reqwest cannot parse as an http(s) URL
\* makes reqwest::get return an Err with no request sent.
Continue(r, s, ms, k, ns) ==
  IF k <= Len(ms)
  THEN IF ParseUrl(MatchText(s, ms[k])).ok
       THEN Pos("resolve", r, s, ms, k, ns, None)
       ELSE ResolveFailed(r, s, ms, k, ns)
  ELSE IF r < Len(Resolving)
  THEN Continue(r + 1, ns, FindIter(Resolving[r + 1], ns), 1, ns)
  ELSE Finished(r, s, ms, k, ns, SyncRules(ns))

replace_all(text) == Continue(1, text, FindIter(Resolving[1], text), 1, text)

\* a variant without the test of event.rs 50
AlwaysChanged(out, text) == TRUE

\* the test of event.rs 50, negated: the rewrite goes out
Changed(out, text) == out # text

\* the task takes the position pos; reqs is the request log so far
Enter(pos, reqs) ==
  /\ pc' = IF pos.pc # "replaced" THEN pos.pc
           ELSE IF Changed(pos.replaced, update.text) THEN "send"
           ELSE "done"
  /\ error' = IF pos.pc = "failed" THEN "Failed to replace text" ELSE "none"
  /\ rule' = pos.rule
  /\ str' = pos.str
  /\ matches' = pos.matches
  /\ idx' = pos.idx
  /\ new_str' = pos.new_str
  /\ replaced' = pos.replaced
  /\ requests' =
       IF pos.pc = "resolve"
       THEN Append(reqs, [url |-> MatchText(pos.str, pos.matches[pos.idx]),
                          final |-> None])
       ELSE reqs
  /\ calls' = IF pc' = "send"
              THEN Append(calls, [op |-> "send_message",
                                  rewrite |-> pos.replaced])
              ELSE calls

\* the message passes the tests of event.rs 35-48
Accepted(u) ==
  u.kind = "Message" /\ ~u.old /\ u.enabled /\ u.text # None

\* process_update up to its first await on the network
ProcessUpdate ==
  /\ pc = "start"
  /\ IF Accepted(update)
     THEN Enter(replace_all(update.text), requests)
     ELSE /\ pc' = "done"
          /\ UNCHANGED <<error, rule, str, matches, idx, new_str, replaced,
                         requests, calls>>
  /\ UNCHANGED <<update, filter, poll>>

Answered(reqs, final) ==
  [reqs EXCEPT ![Len(reqs)] = [@ EXCEPT !.final = final]]

\* new_str.replace_range(x.range(), url.as_str()) gave ns, then the loop
\* goes on with the next match
Written(r, s, ms, k, old, ns) ==
  IF ns = PANIC THEN Pos("panicked", r, s, ms, k, old, None)
  ELSE Continue(r, s, ms, k + 1, ns)

\* the request of get_redirect_url ends at the URL d
ResolveOk(d) ==
  /\ pc = "resolve"
  /\ Enter(Written(rule, str, matches, idx, new_str,
                   replace_range(new_str, matches[idx].start,
                                 matches[idx].end,
                                 UrlToString(Rewritten(Resolving[rule],
                                                       ParseUrl(d))))),
           Answered(requests, d))
  /\ UNCHANGED <<update, filter, poll>>

\* the request of get_redirect_url fails
ResolveErr ==
  /\ pc = "resolve"
  /\ Enter(ResolveFailed(rule, str, matches, idx, new_str),
           Answered(requests, <<"Err">>))
  /\ UNCHANGED <<update, filter, poll>>

SendOk ==
  /\ pc = "send"
  /\ pc' = "delete"
  /\ calls' = Append(calls, [op |-> "delete_message", rewrite |-> None])
  /\ UNCHANGED <<update, error, rule, str, matches, idx, new_str, replaced,
                 requests, filter, poll>>

\* a variant that logs the failure of send_message and goes on to the delete
SendErrIgnored ==
  /\ pc = "send"
  /\ pc' = "delete"
  /\ error' = "Failed to send message..."
  /\ calls' = Append(calls, [op |-> "delete_message", rewrite |-> None])
  /\ UNCHANGED <<update, rule, str, matches, idx, new_str, replaced,
                 requests, filter, poll>>

SendErr ==
  /\ pc = "send"
  /\ pc' = "failed"
  /\ error' = "Failed to send message..."
  /\ UNCHANGED <<update, rule, str, matches, idx, new_str, replaced,
                 requests, calls, filter,
                 poll>>

DeleteOk ==
  /\ pc = "delete"
  /\ pc' = "done"
  /\ UNCHANGED <<update, error, rule, str, matches, idx, new_str, replaced,
                 requests, calls, filter,
                 poll>>

DeleteErr ==
  /\ pc = "delete"
  /\ pc' = "failed"
  /\ error' = "Failed to delete message..."
  /\ UNCHANGED <<update, rule, str, matches, idx, new_str, replaced,
                 requests, calls, filter,
                 poll>>

FilterIdle ==
  /\ furl = None
  /\ fkeys = {}
  /\ fstage = "idle"
  /\ fu0 = UrlErr
  /\ fu1 = UrlErr
  /\ fu2 = UrlErr

\* no polling loop runs
PollIdle ==
  /\ update_seq = <<0, 0>>
  /\ poll_pc = "idle"
  /\ polls = <<>>
  /\ updates = <<>>
  /\ returned = <<>>
  /\ handed = <<>>

Init ==
  /\ update \in Updates
  /\ pc = "start"
  /\ error = "none"
  /\ rule = 1
  /\ str = <<>>
  /\ matches = <<>>
  /\ idx = 1
  /\ new_str = <<>>
  /\ replaced = None
  /\ requests = <<>>
  /\ calls = <<>>
  /\ FilterIdle
  /\ PollIdle

Next ==
  \/ ProcessUpdate
  \/ \E d \in Dests : ResolveOk(d)
  \/ ResolveErr
  \/ SendOk
  \/ SendErr
  \/ DeleteOk
  \/ DeleteErr

Spec == Init /\ [][Next]_vars

(***************************************************************************)
(* The query filter alone: keep_pairs_only_in applied to a URL, and again  *)
(* to its result (replacer.rs 228-263)                                     *)
(***************************************************************************)
\* the most name=value pieces a query of the filter's inputs holds
MaxPairs == 2

F_base ==
  <<"h", "t", "t", "p", "s", ":", "/", "/", "m", "p", ".", "w", "e", "i",
    "x", "i", "n", ".", "q", "q", ".", "c", "o", "m", "/", "s">>

Q_p == <<"p", "=", "1">>

Q_t == <<"t", "=", "a", "%", "3", "D", "b">>

Q_spm == <<"s", "p", "m", "=", "1">>

Q_pct == <<"%", "7", "0", "=", "2">>

Q_bare == <<"t">>

Q_biz == <<"_", "_", "b", "i", "z", "=", "M", "=", "=">>

Q_sn == <<"s", "n", "=", "a", "+", "b", " ", "c">>

Pieces == {Q_p, Q_t, Q_spm, Q_pct, Q_bare, Q_biz, Q_sn, <<>>}

RECURSIVE QueriesOf(_)
QueriesOf(n) ==
  IF n = 1 THEN Pieces
  ELSE {q \o <<"&">> \o x : q \in QueriesOf(n - 1), x \in Pieces}

Fragments == {<<>>, <<"#", "r", "d">>, <<"#", "a", "?", "b">>}

FilterInputs ==
  {F_base \o f : f \in Fragments}
  \cup {F_base \o <<"?">> \o q \o f :
          q \in UNION {QueriesOf(n) : n \in 1..MaxPairs}, f \in Fragments}

Allowlists == {BiliKeys, WeixinKeys}

InitFilter ==
  /\ furl \in FilterInputs
  /\ fkeys \in Allowlists
  /\ fstage = "input"
  /\ fu0 = UrlErr
  /\ fu1 = UrlErr
  /\ fu2 = UrlErr
  /\ update = Msg(None)
  /\ pc = "idle"
  /\ error = "none"
  /\ rule = 1
  /\ str = <<>>
  /\ matches = <<>>
  /\ idx = 1
  /\ new_str = <<>>
  /\ replaced = None
  /\ requests = <<>>
  /\ calls = <<>>
  /\ PollIdle

\* Url::from_str
FParse ==
  /\ fstage = "input"
  /\ fu0' = ParseUrl(furl)
  /\ fstage' = "parsed"
  /\ UNCHANGED <<furl, fkeys, fu1, fu2, task, poll>>

\* url.keep_pairs_only_in(KEYS)
FFilter ==
  /\ fstage = "parsed"
  /\ fu0.ok
  /\ fu1' = KeepPairsOnlyIn(fu0, fkeys)
  /\ fstage' = "once"
  /\ UNCHANGED <<furl, fkeys, fu0, fu2, task, poll>>

\* keep_pairs_only_in once more, on the filtered Url
FFilterAgain ==
  /\ fstage = "once"
  /\ fu2' = KeepPairsOnlyIn(fu1, fkeys)
  /\ fstage' = "twice"
  /\ UNCHANGED <<furl, fkeys, fu0, fu1, task, poll>>

NextFilter == FParse \/ FFilter \/ FFilterAgain

SpecFilter == InitFilter /\ [][NextFilter]_vars

(***************************************************************************)
(* The polling loop of main: get_updates, the offset, the update stream    *)
(***************************************************************************)
\* update_seq is an AtomicU32 and update_id a u32.  A u32 is written as
\* its two 16-bit halves <<high, low>>: the value is high * U16 + low.
U16 == 65536

MaxBatch == 2   \* updates in one answer (the code asks for at most 500)

MaxPolls == 3   \* get_updates calls answered in one run

\* AtomicU32::new(0)
Zero == <<0, 0>>

\* u32::MAX
MaxU32 == <<U16 - 1, U16 - 1>>

\* a < b on u32
Less(a, b) == a[1] < b[1] \/ (a[1] = b[1] /\ a[2] < b[2])

\* a + 1 on a u32 below u32::MAX, with the carry into the high half
Plus1(a) == IF a[2] + 1 < U16 THEN <<a[1], a[2] + 1>> ELSE <<a[1] + 1, 0>>

\* the update ids the server holds: small ones, two around a carry and the
\* two largest u32
UpdateIds ==
  {Zero, <<0, 1>>, <<0, U16 - 1>>, <<1, 0>>, <<U16 - 1, U16 - 2>>, MaxU32}

\* the sequences of length up to n over UpdateIds in increasing order
RECURSIVE Increasing(_)
Increasing(n) ==
  IF n = 0 THEN {<<>>}
  ELSE LET shorter == Increasing(n - 1)
       IN  shorter \cup
           {Append(x[1], x[2]) :
              x \in {y \in shorter \X UpdateIds :
                       /\ Len(y[1]) = n - 1
                       /\ (y[1] # <<>> => Less(y[1][Len(y[1])], y[2]))}}

\* what the server may answer to get_updates(offset): at most MaxBatch
\* updates, no id below the offset, ids increasing
Batches(offset) ==
  {b \in Increasing(MaxBatch) : \A k \in 1..Len(b) : ~Less(b[k], offset)}

\* no task and no filter run beside the loop
TaskIdle ==
  /\ update = Msg(None)
  /\ pc = "idle"
  /\ error = "none"
  /\ rule = 1
  /\ str = <<>>
  /\ matches = <<>>
  /\ idx = 1
  /\ new_str = <<>>
  /\ replaced = None
  /\ requests = <<>>
  /\ calls = <<>>

\* let update_seq = AtomicU32::new(0), the stream not yet polled
InitPoll ==
  /\ update_seq = Zero
  /\ poll_pc = "fetch"
  /\ polls = <<>>
  /\ updates = <<>>
  /\ returned = <<>>
  /\ handed = <<>>
  /\ TaskIdle
  /\ FilterIdle

\* last.update_id + 1 of a build without overflow checks
NewId(last) == IF last = MaxU32 THEN Zero ELSE Plus1(last)

\* update_seq.store(new_id) when the batch has a last element
Stored(b) == IF b = <<>> THEN update_seq ELSE NewId(b[Len(b)])

\* get_updates answers Ok(msg): the offset is stored, then the batch is
\* yielded element by element; an empty batch sleeps and loops
FetchOk(b) ==
  /\ poll_pc = "fetch"
  /\ Len(polls) < MaxPolls
  /\ polls' = Append(polls, "Ok")
  /\ update_seq' = Stored(b)
  /\ updates' = b
  /\ returned' = returned \o b
  /\ poll_pc' = IF b = <<>> THEN "fetch" ELSE "yield"
  /\ UNCHANGED <<handed, task, filter>>

\* last.update_id + 1 of a build with overflow checks: the addition panics
\* at the largest u32, before the store and before any yield
FetchOverflow(b) ==
  /\ poll_pc = "fetch"
  /\ Len(polls) < MaxPolls
  /\ b # <<>>
  /\ b[Len(b)] = MaxU32
  /\ polls' = Append(polls, "Ok")
  /\ returned' = returned \o b
  /\ updates' = <<>>
  /\ poll_pc' = "panicked"
  /\ UNCHANGED <<update_seq, handed, task, filter>>

\* get_updates answers Err: log, sleep failed_delay, continue
FetchErr ==
  /\ poll_pc = "fetch"
  /\ Len(polls) < MaxPolls
  /\ polls' = Append(polls, "Err")
  /\ UNCHANGED <<update_seq, poll_pc, updates, returned, handed, task, filter>>

\* yield update; stream.next() hands it to a spawned process_update
Yield ==
  /\ poll_pc = "yield"
  /\ handed' = Append(handed, Head(updates))
  /\ updates' = Tail(updates)
  /\ poll_pc' = IF Tail(updates) = <<>> THEN "fetch" ELSE "yield"
  /\ UNCHANGED <<update_seq, polls, returned, task, filter>>

NextPoll ==
  \/ \E b \in Batches(update_seq) : FetchOk(b)
  \/ \E b \in Batches(update_seq) : FetchOverflow(b)
  \/ FetchErr
  \/ Yield

SpecPoll == InitPoll /\ [][NextPoll]_vars

(***************************************************************************)
(* Properties                                                              *)
(***************************************************************************)
\* the task has ended: Ok, Err or a panic
Terminal == pc \in {"done", "failed", "panicked"}

\* sub occurs in s
Contains(s, sub) ==
  \E i \in 0..(Len(s) - Len(sub)) : Slice(s, i, i + Len(sub)) = sub

\* no pattern of the catalog matches in t
NoRuleMatches(t) ==
  \A r \in DOMAIN Rules :
    \A j \in 0..(Len(t) - 1) : MatchAt(Rules[r], t, j) = NoMatch

\* the links of the inputs that a rule without a request rewrites
SyncLinks == {L_bvideo, L_twitter, L_weixin}

\* C1: for a text of two links, each rewritten by a rule that does no
\* request, with a space between them, replace_all returns the rewritten form
\* of the first link (what the pipeline gives for that link alone), the
\* space, and the rewritten form of the second link.
C1_BothRewritten ==
  \A a, b \in SyncLinks :
    (update = Msg(a \o <<" ">> \o b) /\ pc # "start")
      => replaced = SyncRules(a) \o <<" ">> \o SyncRules(b)

\* C2: once a request of a resolving rule has failed, the task has ended
\* with the error of replace_all at the match of that request; the request
\* is the last one issued (no later match resolved, no retry), no text was
\* returned and nothing was sent.
C2_FailureAborts ==
  \A k \in 1..Len(requests) :
    requests[k].final = <<"Err">>
      => /\ k = Len(requests)
         /\ pc = "failed"
         /\ error = "Failed to replace text"
         /\ requests[k].url = MatchText(str, matches[idx])
         /\ replaced = None
         /\ calls = <<>>

\* a request failed while the rule had a later match to resolve
C2_Witness ==
  /\ requests # <<>>
  /\ requests[Len(requests)].final = <<"Err">>
  /\ idx < Len(matches)

\* C3: a send or a delete is issued only when replace_all returned a text
\* that differs from the message text, the send carrying that text; when
\* replace_all failed or returned the message text, the task ends with no
\* call issued.
C3_SendOnlyChanged ==
  /\ calls # <<>>
       => /\ replaced # None
          /\ replaced # update.text
          /\ calls[1] = [op |-> "send_message", rewrite |-> replaced]
  /\ (Terminal /\ (replaced = None \/ replaced = update.text))
       => calls = <<>>

\* the rewrite was sent and the original deleted
C3_Witness == pc = "done" /\ Len(calls) = 2

\* the canonical forms of the final URLs of the inputs
CanonicalDests == {<<d, SyncRules(d)>> : d \in Dests}

\* C4: when replace_all returned a text, for every request that ended at a
\* final URL a canonicalizing rule matches, the text holds the canonical
\* form of that URL and not the URL as resolved.
C4_DestinationCanonical ==
  replaced # None
    => \A k \in 1..Len(requests) :
         \A c \in CanonicalDests :
           (requests[k].final = c[1] /\ c[2] # c[1])
             => Contains(replaced, c[2]) /\ ~Contains(replaced, c[1])

\* C5: for a text no pattern matches, replace_all returns the text itself
\* and the task ends Ok with no request and no call issued.
C5_Identity ==
  (Accepted(update) /\ pc # "start" /\ NoRuleMatches(update.text))
    => /\ pc = "done"
       /\ replaced = update.text
       /\ requests = <<>>
       /\ calls = <<>>

\* replace_all has run on a non-empty text that no pattern matches
C5_Witness ==
  /\ Accepted(update)
  /\ update.text # <<>>
  /\ pc = "done"
  /\ NoRuleMatches(update.text)

\* the filter has run on fu0 and given fu1
Filtered == fstage \in {"once", "twice"}

\* the name=value pieces of a query as written, those between "&" that are
\* empty left out
RawPieces(u) ==
  IF u.query = None THEN <<>>
  ELSE LET NonEmpty1(x) == x # <<>> IN SelectSeq(Split(u.query, "&"), NonEmpty1)

\* the pieces as written whose key is in the allowlist
AllowedPieces(u, keys) ==
  LET Allowed(x) == DecodePair(x)[1] \in keys
  IN  SelectSeq(RawPieces(u), Allowed)

\* C6 as stated: the filtered URL holds the pieces whose key is in the
\* allowlist, with the text they had in the input, in their order, and no
\* other.
C6_Verbatim ==
  Filtered => RawPieces(fu1) = AllowedPieces(fu0, fkeys)

\* C6: the pairs of the filtered URL are the pairs of the input whose key
\* is in the allowlist, in their order, with their decoded key and value
\* unchanged; scheme, host, path and fragment are unchanged.  (Their text is
\* written anew: "=" in a value becomes %3D, a key without "=" gains one.)
C6_KeepsAllowedPairs ==
  Filtered
    => /\ LET Allowed(x) == x[1] \in fkeys
          IN  QueryPairs(fu1) = SelectSeq(QueryPairs(fu0), Allowed)
       /\ fu1.base = fu0.base
       /\ fu1.fragment = fu0.fragment

\* of two pairs one was kept and one removed, and the text of the kept one
\* is not the text it had
C6_Witness ==
  /\ fstage = "once"
  /\ Len(QueryPairs(fu0)) = 2
  /\ Len(QueryPairs(fu1)) = 1
  /\ RawPieces(fu1) # AllowedPieces(fu0, fkeys)

\* no pair of the parsed URL has a key in the allowlist
NoneAllowed ==
  \A k \in 1..Len(QueryPairs(fu0)) : QueryPairs(fu0)[k][1] \notin fkeys

\* C7 as stated: when no pair has a key in the allowlist, the serialized
\* form of the filtered URL holds no "?".
C7_NoQuestionMark ==
  (Filtered /\ NoneAllowed)
    => \A k \in 1..Len(UrlToString(fu1)) : UrlToString(fu1)[k] # "?"

\* C7: when no pair has a key in the allowlist, the filtered URL has no
\* query, and its serialized form holds no "?" before its fragment.
C7_NoQueryComponent ==
  (Filtered /\ NoneAllowed)
    => /\ fu1.query = None
       /\ IndexOf(UrlToString(fu1), "?", 0)
            >= IndexOf(UrlToString(fu1), "#", 0)

\* a query with pairs, all of them removed
C7_Witness ==
  /\ fstage = "once"
  /\ QueryPairs(fu0) # <<>>
  /\ NoneAllowed
  /\ fu1.query = None

\* C8: filtering the filtered URL again with the same allowlist gives the
\* same URL.
C8_Idempotent == fstage = "twice" => fu2 = fu1

\* the filter ran twice on a URL of which it removed a pair and kept one
\* whose value holds an escape
C8_Witness ==
  /\ fstage = "twice"
  /\ fu1 # fu0
  /\ fu1.query # None
  /\ Contains(fu1.query, <<"%">>)

\* C9: the task does not fail at a match whose text does not parse as a
\* URL: when replace_all has failed at a match, the text of that match
\* parses (and its resolution failed).
C9_UnparseableSkipped ==
  (pc = "failed" /\ error = "Failed to replace text")
    => ParseUrl(MatchText(str, matches[idx])).ok

\* C10: every match of the running rule that does not begin with http://
\* or https:// begins at the start of the text or after a character that
\* is no letter.
C10_Boundary ==
  \A k \in 1..Len(matches) :
    SchemeAt(str, matches[k].start) # FAIL
    \/ NotAfterLetter(str, matches[k].start)

\* C11: no replace_range call is given a range outside its string (which
\* panics), and while a resolving rule awaits the resolution of a match, the
\* range it will write over lies within new_str and covers there the text
\* of that match.
C11_RangesValid ==
  /\ pc # "panicked"
  /\ pc = "resolve"
       => /\ matches[idx].end <= Len(new_str)
          /\ Slice(new_str, matches[idx].start, matches[idx].end)
               = MatchText(str, matches[idx])

\* C12: in the text replace_all returns, every match of TWITTER_REGEX is a
\* rewritten link: it begins with https://c.vxtwitter.com (no social-post
\* link is left as it was).
C12_AllRewritten ==
  replaced # None
    => \A k \in 1..Len(FindIter("twitter", replaced)) :
         LitAt(replaced, FindIter("twitter", replaced)[k].start, T_twitter)
           # FAIL

\* C13: a delete_message call is the second call of the task, issued after
\* a send_message call that has succeeded; once send_message has failed,
\* the send is the only call issued.
C13_DeleteAfterSend ==
  /\ \A k \in 1..Len(calls) :
       calls[k].op = "delete_message"
         => /\ k = 2
            /\ calls[1].op = "send_message"
            /\ pc # "send"
            /\ error # "Failed to send message..."
  /\ error = "Failed to send message..."
       => /\ pc = "failed"
          /\ Len(calls) = 1
          /\ calls[1].op = "send_message"

\* the send has succeeded and the delete is in flight
C13_Witness ==
  /\ pc = "delete"
  /\ Len(calls) = 2
  /\ calls[2].op = "delete_message"

\* C14: in the polling loop, with a server that answers get_updates(offset)
\* only with ids >= offset in increasing order, update_seq is one more than
\* the last update id returned (0 while nothing was returned, so it is
\* unchanged by a failed or an empty fetch and never decreases), the loop
\* does not stop, and the updates returned are handed to process_update in
\* order, none dropped and none twice.
C14_OffsetFollowsLastId ==
  /\ poll_pc # "panicked"
  /\ returned = <<>> => update_seq = Zero
  /\ returned # <<>>
       => /\ returned[Len(returned)] # MaxU32
          /\ update_seq = Plus1(returned[Len(returned)])
  /\ handed \o updates = returned
  /\ \A j, k \in 1..Len(handed) : j < k => Less(handed[j], handed[k])

====
